---- MODULE Spec2Model ----
\* Model of czarina-core/llm-monitor-daemon.py: the LLM monitor daemon that
\* watches worker activity (file-system notifications), classifies stale
\* workers with an LLM, executes the recommended action and keeps an audit log.
\*
\* Threads: the main thread runs LLMMonitorDaemon.run (timer loop,
\* check_stale_workers, analyze_worker, ActionExecutor.execute); the watchdog
\* observer thread runs the notification handlers, which call
\* WorkerState.update_activity.  The code takes no lock, so the model
\* interleaves the two threads at the granularity of attribute reads and
\* writes.
EXTENDS Integers, Sequences, FiniteSets, TLC

----------------------------------------------------------------------------
\* Bounds of the model

\* classifier calls and clock advances explored in one behaviour of the daemon
MaxPasses == 2
MaxAdvances == 2
\* ... and in one behaviour of the daemon fed stuck/confused results
MaxStreakPasses == 4
MaxStreakAdvances == 4
\* ... and in one behaviour of the daemon fed every shape of response
MaxShapePasses == 1
MaxShapeAdvances == 1
\* whole days of idleness explored for is_stale
MaxDays == 2
\* ... and in one behaviour of the daemon whose clock also steps by a day
MaxDayPasses == 1
MaxDayAdvances == 2
\* ... and in one behaviour of the daemon that can be interrupted
MaxCancelPasses == 1
MaxCancelAdvances == 1
\* ... and in one behaviour of the daemon constructed from any configuration
MaxConfigPasses == 1
MaxConfigAdvances == 1
\* the longest "workers" list of config.json explored for the construction
MaxWorkerEntries == 3

----------------------------------------------------------------------------
\* Program constants

\* MonitorConfig.check_interval
check_interval == 30
\* MonitorConfig.stale_threshold (never overridden by _load_config)
stale_threshold == 300
\* analyze_worker: "if worker.consecutive_stuck_count >= 3"
EscalationCount == 3
\* datetime.timedelta keeps days apart from seconds (0 <= seconds < 86400)
SecondsPerDay == 86400
\* ... and microseconds apart from seconds (0 <= microseconds < 1000000)
MicrosPerSecond == 1000000
\* Haiku pricing of WorkerAnalyzer.analyze_worker, per token, in 1e-8 dollars
InputPrice == 25
OutputPrice == 125

\* the configured workers, in the order of config.json's "workers" list
WorkerOrder == <<"w1", "w2">>
Workers == {WorkerOrder[i] : i \in 1..Len(WorkerOrder)}
\* an id that names no configured worker (a stray log file, a foreign event)
Stranger == "ghost"

\* Python's None
None == "None"

----------------------------------------------------------------------------
\* Time: datetime values are (seconds, microseconds) since the daemon's
\* construction; timedelta values are normalised as Python normalises them.

Datetime(s, us) == [s |-> s, us |-> us]

\* datetime.__sub__: a normalised timedelta (days, seconds, microseconds)
DatetimeSub(a, b) ==
    LET dus  == a.us - b.us
        secs == (a.s - b.s) + (dus \div MicrosPerSecond)
    IN  [days         |-> secs \div SecondsPerDay,
         seconds      |-> secs % SecondsPerDay,
         microseconds |-> dus % MicrosPerSecond]

\* datetime + timedelta(days, seconds, microseconds)
DatetimeAdd(a, days, seconds, microseconds) ==
    LET us == a.us + microseconds
    IN  Datetime(a.s + days * SecondsPerDay + seconds + (us \div MicrosPerSecond),
                 us % MicrosPerSecond)

\* WorkerState.is_stale: (datetime.now() - self.last_activity).seconds > threshold
is_stale(last_activity, nowdt, threshold_seconds) ==
    DatetimeSub(nowdt, last_activity).seconds > threshold_seconds

----------------------------------------------------------------------------
\* Dictionaries are functions from their keys; dict.get(k, default)

Get(d, k, default) == IF k \in DOMAIN d THEN d[k] ELSE default

\* The closed enumerations of the classifier contract (the system prompt)
StatusEnum == {"working", "stuck", "waiting", "complete", "confused", "error"}
ActionEnum == {"approve", "send_keys", "intervene", "none"}

\* What client.messages.create and response.content[0].text can give:
\*   call  "ok" | "timeout" | "api_error"  (the two last raise)
\*   body  what json.loads makes of the text: a failure ("notjson"), a JSON
\*         value that is no object ("list"), or an object ("dict", with d)
Usage == [input |-> 400, output |-> 40]

Resp(call, body) == [call |-> call, body |-> body, usage |-> Usage]
Dict(d) == [t |-> "dict", d |-> d]

RespTimeout  == Resp("timeout", [t |-> "none"])
RespApiError == Resp("api_error", [t |-> "none"])
RespNotJson  == Resp("ok", [t |-> "notjson"])
RespList     == Resp("ok", [t |-> "list"])

Decision(s, a, k, c) ==
    Resp("ok", Dict([status |-> s, action |-> a, keys |-> k,
                     reasoning |-> "because", confidence |-> c]))
DecisionNoKeys(s, a, c) ==
    Resp("ok", Dict([status |-> s, action |-> a,
                     reasoning |-> "because", confidence |-> c]))
DecisionNoReasoning(s, a, c) ==
    Resp("ok", Dict([status |-> s, action |-> a, confidence |-> c]))

\* the responses the daemon's behaviours are explored with
Responses ==
    { Decision("stuck", "approve", "Y", 90),
      DecisionNoKeys("confused", "send_keys", 70),
      DecisionNoKeys("complete", "none", 95),
      DecisionNoKeys("waiting", "intervene", 60),
      DecisionNoReasoning("confused", "intervene", 50) }

\* the responses SpecShapes explores: every shape of answer
AllResponses ==
    Responses \cup
    { RespTimeout, RespApiError, RespNotJson, RespList,
      DecisionNoKeys("paused", "restart", 40),
      DecisionNoKeys("working", "none", 80),
      Resp("ok", Dict([action |-> "none", reasoning |-> "because", confidence |-> 10])),
      Resp("ok", Dict([status |-> "working", reasoning |-> "because", confidence |-> 10])),
      Resp("ok", Dict([status |-> "working", action |-> "none", reasoning |-> "because"])),
      DecisionNoKeys("COMPLETE", "none", 95),
      DecisionNoKeys("STUCK", "none", 95),
      DecisionNoKeys("STARTING", "none", 50),
      DecisionNoKeys("stuck", "approve", 85),
      Decision("stuck", "approve", "", 85),
      Decision("stuck", "send_keys", "2", 85),
      Decision("error", "intervene", "Y", 30),
      DecisionNoReasoning("stuck", "approve", 85),
      DecisionNoKeys("working", "none", 150) }

\* cost = input_tokens * 0.25 / 1e6 + output_tokens * 1.25 / 1e6
Cost(usage) == usage.input * InputPrice + usage.output * OutputPrice

\* the dictionary both except clauses of WorkerAnalyzer.analyze_worker return
ErrorAnalysis(why) ==
    [status |-> "error", action |-> "none", reasoning |-> why, confidence |-> 0]

\* result['cost'] = cost; result['tokens'] = {...}
WithCost(d, usage) ==
    [k \in DOMAIN d \cup {"cost", "tokens"} |->
        IF k = "cost" THEN Cost(usage)
        ELSE IF k = "tokens" THEN usage
        ELSE d[k]]

\* the first key the logging.info f-string reads that the dictionary lacks
FirstMissing(d) ==
    IF "status" \notin DOMAIN d THEN "status"
    ELSE IF "action" \notin DOMAIN d THEN "action"
    ELSE IF "confidence" \notin DOMAIN d THEN "confidence"
    ELSE None

\* WorkerAnalyzer.analyze_worker: the dictionary it returns for a response
AnalyzerResult(resp) ==
    IF resp.call = "timeout" THEN ErrorAnalysis("Analysis failed: Request timed out.")
    ELSE IF resp.call # "ok" THEN ErrorAnalysis("Analysis failed: api error")
    ELSE IF resp.body.t = "notjson" THEN ErrorAnalysis("Failed to parse LLM response")
    ELSE IF resp.body.t # "dict" THEN ErrorAnalysis("Analysis failed: TypeError")
    ELSE IF FirstMissing(resp.body.d) # None
         THEN ErrorAnalysis("Analysis failed: KeyError")
    ELSE WithCost(resp.body.d, resp.usage)

\* a variant of CallReturned that also wants the text to parse as an object
CallParsed(resp) == resp.call = "ok" /\ resp.body.t = "dict"

\* whether messages.create returned (the cost is added before json.loads)
CallReturned(resp) == resp.call = "ok"

----------------------------------------------------------------------------
\* ActionExecutor

\* ActionExecutor._log_decision: the line of llm-decisions.log
HumanLine(timestamp, worker_id, a) ==
    [timestamp  |-> timestamp,
     worker     |-> worker_id,
     status     |-> Get(a, "status", None),
     action     |-> Get(a, "action", None),
     confidence |-> Get(a, "confidence", None),
     reasoning  |-> Get(a, "reasoning", None)]

\* a variant of JsonLine that writes the action where the status belongs
JsonLineSwapped(timestamp, worker_id, a) ==
    [timestamp  |-> timestamp,
     worker     |-> worker_id,
     status     |-> Get(a, "action", None),
     action     |-> Get(a, "status", None),
     keys       |-> Get(a, "keys", None),
     reasoning  |-> Get(a, "reasoning", None),
     confidence |-> Get(a, "confidence", None),
     cost       |-> Get(a, "cost", 0),
     tokens     |-> Get(a, "tokens", <<>>)]

\* ActionExecutor._log_decision: the line of llm-decisions.jsonl
JsonLine(timestamp, worker_id, a) ==
    [timestamp  |-> timestamp,
     worker     |-> worker_id,
     status     |-> Get(a, "status", None),
     action     |-> Get(a, "action", None),
     keys       |-> Get(a, "keys", None),
     reasoning  |-> Get(a, "reasoning", None),
     confidence |-> Get(a, "confidence", None),
     cost       |-> Get(a, "cost", 0),
     tokens     |-> Get(a, "tokens", <<>>)]

Outcome(ret, sends, alerts) == [ret |-> ret, sends |-> sends, alerts |-> alerts]

\* a variant of ExecutorOutcome without the auto_approve gate
ExecutorOutcomeUngated(worker_id, window, a, auto_approve_on, tmux_ok) ==
    LET action == Get(a, "action", "none")
        alert  == [level |-> "WARNING", kind |-> "intervene",
                   worker |-> worker_id, count |-> 0]
    IN  IF action = "none" THEN Outcome("True", <<>>, <<>>)
        ELSE IF action = "intervene"
             THEN IF "reasoning" \in DOMAIN a
                  THEN Outcome("False", <<>>, <<alert>>)
                  ELSE Outcome("KeyError", <<>>, <<>>)
        ELSE IF action \in {"approve", "send_keys"}
             THEN IF "reasoning" \in DOMAIN a
                  THEN Outcome(IF tmux_ok THEN "True" ELSE "False",
                               <<[window |-> window, keys |-> Get(a, "keys", "C-m")]>>,
                               <<>>)
                  ELSE Outcome("KeyError", <<>>, <<>>)
        ELSE Outcome("False", <<>>, <<>>)

\* ActionExecutor.execute after the call of _log_decision: what it returns
\* ("True", "False", or the KeyError that analysis['reasoning'] raises), the
\* tmux send-keys calls it makes and the warnings it logs.  tmux_ok is the
\* result of TmuxInterface.send_keys.
ExecutorOutcome(worker_id, window, a, auto_approve_on, tmux_ok) ==
    LET action == Get(a, "action", "none")
        alert  == [level |-> "WARNING", kind |-> "intervene",
                   worker |-> worker_id, count |-> 0]
    IN  IF action = "none" THEN Outcome("True", <<>>, <<>>)
        ELSE IF action = "intervene"
             THEN IF "reasoning" \in DOMAIN a
                  THEN Outcome("False", <<>>, <<alert>>)
                  ELSE Outcome("KeyError", <<>>, <<>>)
        ELSE IF ~auto_approve_on THEN Outcome("False", <<>>, <<>>)
        ELSE IF action \in {"approve", "send_keys"}
             THEN IF "reasoning" \in DOMAIN a
                  THEN Outcome(IF tmux_ok THEN "True" ELSE "False",
                               <<[window |-> window, keys |-> Get(a, "keys", "C-m")]>>,
                               <<>>)
                  ELSE Outcome("KeyError", <<>>, <<>>)
        ELSE Outcome("False", <<>>, <<>>)

----------------------------------------------------------------------------
\* State

VARIABLES
    now,              \* the wall clock, in whole seconds since construction
    advances,         \* how often the clock has advanced (bounds the model)
    workers,          \* LLMMonitorDaemon.workers: id -> WorkerState
    auto_approve,     \* MonitorConfig.auto_approve
    pc,               \* main thread: where LLMMonitorDaemon.run is
    idx,              \* main thread: position of check_stale_workers' loop
    last_check,       \* run: last_check
    resp,             \* analyze_worker: what the classifier answered (None outside a pass)
    analysis,         \* analyze_worker: analysis (None outside a pass)
    tmp,              \* analyze_worker: the count read by "+= 1"
    exec_result,      \* what ActionExecutor.execute returned in this pass
    total_requests,   \* WorkerAnalyzer.total_requests
    total_cost,       \* WorkerAnalyzer.total_cost, in 1e-8 dollars
    decisions_log,    \* llm-decisions.log, a sequence of lines
    json_log,         \* llm-decisions.jsonl, a sequence of lines
    sent,             \* the tmux send-keys calls made, in order
    monitor_log,      \* llm-monitor.log: the intervention warnings, the escalation
                      \* errors and the final stats
    wtouch,           \* observer thread: the worker whose update_activity is half done
    executed,         \* history: the calls of ActionExecutor.execute, in order
    streak,           \* history: per worker, stuck/confused results since the last reset
    interrupted,      \* history: per worker, a touch hit the middle of "+= 1"
    probe,            \* the input (and result) of the function a specification
                      \* explores on its own: is_stale, _initialize_workers
    api_key,          \* MonitorConfig.api_key (None when the variable is unset)
    enabled,          \* MonitorConfig.enabled
    cancelled,        \* history: a KeyboardInterrupt was raised in the main thread
    in_flight,        \* history: per worker, the calls of analyze_worker not yet over
    count0,           \* history: the worker's count when the pass in flight began
    captured          \* history: the window the pass in flight took its snapshot
                      \* from (0 outside a pass and before the snapshot)

clockVars  == <<now, advances>>
mainVars   == <<pc, idx, last_check, resp, analysis, tmp, exec_result>>
statVars   == <<total_requests, total_cost>>
auditVars  == <<decisions_log, json_log, executed>>
outVars    == <<sent, monitor_log>>
histVars   == <<streak, interrupted>>
configVars == <<api_key, enabled>>
passVars   == <<in_flight, count0, captured>>
vars == <<now, advances, workers, auto_approve, pc, idx, last_check, resp,
          analysis, tmp, exec_result, total_requests, total_cost,
          decisions_log, json_log, sent, monitor_log, wtouch, executed, streak,
          interrupted, probe, api_key, enabled, cancelled, in_flight, count0,
          captured>>

\* WorkerState.__init__; _initialize_workers gives the worker at position
\* idx (0-based) of the list the window idx + 1
WorkerState(worker_id, window_num, t) ==
    [worker_id |-> worker_id,
     window_num |-> window_num,
     last_activity |-> t,
     status |-> "STARTING",
     consecutive_stuck_count |-> 0]

PositionOf(w) == CHOOSE i \in 1..Len(WorkerOrder) : WorkerOrder[i] = w

\* LLMMonitorDaemon._initialize_workers
initialize_workers(t) == [w \in Workers |-> WorkerState(w, PositionOf(w), t)]

\* the parts of the state that do not depend on config.json's "workers"
InitCommon ==
    /\ now = 0
    /\ advances = 0
    /\ auto_approve \in BOOLEAN
    /\ idx = 1
    /\ last_check = 0
    /\ resp = None
    /\ analysis = None
    /\ tmp = 0
    /\ exec_result = None
    /\ total_requests = 0
    /\ total_cost = 0
    /\ decisions_log = <<>>
    /\ json_log = <<>>
    /\ sent = <<>>
    /\ monitor_log = <<>>
    /\ wtouch = None
    /\ executed = <<>>
    /\ streak = [w \in Workers |-> 0]
    /\ interrupted = [w \in Workers |-> FALSE]
    /\ cancelled = FALSE
    /\ in_flight = [w \in Workers |-> 0]
    /\ count0 = 0
    /\ captured = 0

\* the state after LLMMonitorDaemon.__init__, run() not yet called
InitDaemon ==
    /\ InitCommon
    /\ workers = initialize_workers(0)
    /\ pc = "init"

\* LLMMonitorDaemon._load_config: config.enabled, for the value key of the
\* environment variable ANTHROPIC_API_KEY (None when unset) and the object
\* llm_config that config.json holds under "llm_monitor" (the empty
\* dictionary when the file or the object is missing)
load_config(key, llm_config) ==
    LET by_key == key \notin {None, ""}
    IN  IF "enabled" \in DOMAIN llm_config THEN llm_config.enabled ELSE by_key

\* a credential, and a configuration file that says nothing about enabled
Credential == "sk-key"
EmptyDict == <<>>

\* the daemon constructed with the credential set
Init ==
    /\ InitDaemon
    /\ api_key = Credential
    /\ enabled = load_config(Credential, EmptyDict)
    /\ probe = [state |-> "idle"]

\* the worker the main thread is at
cur == WorkerOrder[idx]

\* where the main thread is while it is inside the try block of run()
LoopPcs == {"sleep", "check", "capture", "classify", "execute", "update", "store"}

\* the watchdog observer thread runs from observer.start() until it is
\* stopped or the process ends
Watching == pc \in LoopPcs

----------------------------------------------------------------------------
\* The clock

\* the steps the wall clock is advanced by: just past the staleness threshold
\* (which is more than one check interval)
ClockSteps == {stale_threshold + 1}

\* time passes while run() sleeps (time.sleep(1), again and again); limit
\* bounds the advances of one behaviour
Advance(d, limit) ==
    /\ advances < limit
    /\ pc = "sleep"
    /\ now' = now + d
    /\ advances' = advances + 1
    /\ UNCHANGED <<workers, auto_approve, mainVars, statVars, auditVars,
                   outVars, wtouch, histVars, probe, configVars, passVars, cancelled>>

----------------------------------------------------------------------------
\* The observer thread: LogFileEventHandler.on_modified

\* a variant of SetLastActivity that leaves last_activity as it was
SetLastActivityForgotten(ws, w, t) == ws

\* a variant of SetLastActivity that touches every worker
SetLastActivityOfAll(ws, w, t) == [v \in DOMAIN ws |-> [ws[v] EXCEPT !.last_activity = t]]

\* WorkerState.update_activity, first statement: self.last_activity = datetime.now()
SetLastActivity(ws, w, t) == [ws EXCEPT ![w].last_activity = t]

\* WorkerState.update_activity, second statement: self.consecutive_stuck_count = 0
ResetStuckCount(ws, w) == [ws EXCEPT ![w].consecutive_stuck_count = 0]

\* on_worker_log_update(worker_id): a file <worker_id>.log of the logs
\* directory was modified; update_activity starts for a registered worker
OnWorkerLogUpdate(id) ==
    /\ Watching
    /\ wtouch = None
    /\ IF id \in Workers
       THEN /\ workers' = SetLastActivity(workers, id, now)
            /\ wtouch' = id
       ELSE UNCHANGED <<workers, wtouch>>
    /\ UNCHANGED <<clockVars, auto_approve, mainVars, statVars, auditVars,
                   outVars, histVars, probe, configVars, passVars, cancelled>>

\* on_events_update(): events.jsonl was modified and its last line names id
\* as source or worker
OnEventsUpdate(id) ==
    /\ Watching
    /\ wtouch = None
    /\ IF id \in Workers
       THEN /\ workers' = SetLastActivity(workers, id, now)
            /\ wtouch' = id
       ELSE UNCHANGED <<workers, wtouch>>
    /\ UNCHANGED <<clockVars, auto_approve, mainVars, statVars, auditVars,
                   outVars, histVars, probe, configVars, passVars, cancelled>>

\* whether the main thread has read worker w's count and not yet written it
MidIncrement(w) == pc = "store" /\ cur = w

\* update_activity ends: the count is reset
TouchReset ==
    /\ Watching
    /\ wtouch # None
    /\ workers' = ResetStuckCount(workers, wtouch)
    /\ streak' = [streak EXCEPT ![wtouch] = 0]
    /\ interrupted' = [interrupted EXCEPT ![wtouch] = MidIncrement(wtouch)]
    /\ wtouch' = None
    /\ UNCHANGED <<clockVars, auto_approve, mainVars, statVars, auditVars,
                   outVars, probe, configVars, passVars, cancelled>>

----------------------------------------------------------------------------
\* The main thread: LLMMonitorDaemon.run

\* a variant of RunStart that goes on without looking at the session
RunStartUnchecked(session_exists) ==
    /\ pc = "init"
    /\ pc' = IF ~enabled THEN "disabled" ELSE "sleep"
    /\ last_check' = now
    /\ UNCHANGED <<clockVars, workers, auto_approve, idx, resp, analysis, tmp,
                   exec_result, statVars, auditVars, outVars, wtouch, histVars,
                   probe, configVars, passVars, cancelled>>

\* run() up to the loop: it returns when config.enabled is false, and then
\* tmux.session_exists() decides whether the observer and the timer start
RunStart(session_exists) ==
    /\ pc = "init"
    /\ pc' = IF ~enabled THEN "disabled"
             ELSE IF session_exists THEN "sleep" ELSE "halted"
    /\ last_check' = now
    /\ UNCHANGED <<clockVars, workers, auto_approve, idx, resp, analysis, tmp,
                   exec_result, statVars, auditVars, outVars, wtouch, histVars,
                   probe, configVars, passVars, cancelled>>

\* the timer is due: now - last_check >= check_interval; check_stale_workers
\* starts, and last_check becomes the time read
TimerFire ==
    /\ pc = "sleep"
    /\ now - last_check >= check_interval
    /\ pc' = "check"
    /\ idx' = 1
    /\ last_check' = now
    /\ UNCHANGED <<clockVars, workers, auto_approve, resp, analysis, tmp,
                   exec_result, statVars, auditVars, outVars, wtouch, histVars,
                   probe, configVars, passVars, cancelled>>

\* a variant of SkippedStatuses that also holds the classifier's spellings
SkippedStatusesAnyCase == {"COMPLETE", "STUCK", "complete", "stuck"}

\* the statuses check_stale_workers never analyses
SkippedStatuses == {"COMPLETE", "STUCK"}

\* check_stale_workers: whether worker ws is analysed at time t
DueForAnalysis(ws, t) ==
    /\ is_stale(Datetime(ws.last_activity, 0), Datetime(t, 0), stale_threshold)
    /\ ws.status \notin SkippedStatuses

\* a variant of Proceed that abandons the tick after any worker
ProceedStops(i) == pc' = "sleep" /\ idx' = 1

\* the loop of check_stale_workers goes on after the worker at position i
Proceed(i) ==
    IF i >= Len(WorkerOrder)
    THEN pc' = "sleep" /\ idx' = 1
    ELSE pc' = "check" /\ idx' = i + 1

\* what ends a pass: the locals of analyze_worker are gone
EndPass == resp' = None /\ analysis' = None /\ tmp' = 0 /\ exec_result' = None

\* a variant of FinishPass that forgets that the call is over
FinishPassForgotten(f, w) == f

\* analyze_worker is called for worker w, and it returns
BeginPass(f, w) == [f EXCEPT ![w] = @ + 1]
FinishPass(f, w) == [f EXCEPT ![w] = @ - 1]

\* analyze_worker returns to check_stale_workers
Returns == in_flight' = FinishPass(in_flight, cur) /\ count0' = 0 /\ captured' = 0

\* check_stale_workers, one iteration: analyze_worker is called or not
CheckWorker ==
    /\ pc = "check"
    /\ IF DueForAnalysis(workers[cur], now)
       THEN /\ pc' = "capture" /\ idx' = idx
            /\ in_flight' = BeginPass(in_flight, cur)
            /\ count0' = workers[cur].consecutive_stuck_count
            /\ captured' = captured
       ELSE Proceed(idx) /\ UNCHANGED passVars
    /\ UNCHANGED <<clockVars, workers, auto_approve, last_check, resp, analysis,
                   tmp, exec_result, statVars, auditVars, outVars, wtouch,
                   histVars, probe, configVars, cancelled>>

\* a variant of CaptureTarget that always looks at the first worker's window
CaptureTargetFirst(ws) == 1

\* analyze_worker: the window capture_pane is called for, for the worker
\* with state ws
CaptureTarget(ws) == ws.window_num

\* analyze_worker: tmux.capture_pane gives text, gives "" or gives None
\* (limit bounds the classifier calls of one behaviour)
Capture(snapshot, limit) ==
    /\ pc = "capture"
    /\ total_requests < limit
    /\ IF snapshot = "text"
       THEN /\ pc' = "classify" /\ idx' = idx
            /\ captured' = CaptureTarget(workers[cur])
            /\ UNCHANGED <<in_flight, count0>>
       ELSE Proceed(idx) /\ Returns
    /\ UNCHANGED <<clockVars, workers, auto_approve, last_check, resp, analysis,
                   tmp, exec_result, statVars, auditVars, outVars, wtouch,
                   histVars, probe, configVars, cancelled>>

\* worker.status = analysis['status'] (worker.last_analysis, which nothing
\* reads, is not kept)
RecordAnalysis(ws, w, a) ==
    [ws EXCEPT ![w].status = a.status]

\* analyze_worker: self.analyzer.analyze_worker(...) answers r, and the
\* worker's last_analysis and status are set; a client that holds no
\* credential gets no answer from messages.create, which raises
Classify(r) ==
    /\ pc = "classify"
    /\ api_key \in {None, ""} => ~CallReturned(r)
    /\ resp' = r
    /\ analysis' = AnalyzerResult(r)
    /\ total_requests' = total_requests + 1
    /\ total_cost' = IF CallReturned(r) THEN total_cost + Cost(r.usage) ELSE total_cost
    /\ workers' = RecordAnalysis(workers, cur, AnalyzerResult(r))
    /\ pc' = "execute"
    /\ UNCHANGED <<clockVars, auto_approve, idx, last_check, tmp, exec_result,
                   auditVars, outVars, wtouch, histVars, probe, configVars, passVars, cancelled>>

\* analyze_worker: "if analysis['action'] != 'none'"
CallsExecutor(a) == a.action # "none"

\* analyze_worker: the executor is called or not; its KeyError is caught
\* nowhere (run catches KeyboardInterrupt only) and ends the process
Execute(tmux_ok) ==
    /\ pc = "execute"
    /\ IF CallsExecutor(analysis)
       THEN LET w   == cur
                out == ExecutorOutcome(w, workers[w].window_num, analysis,
                                       auto_approve, tmux_ok)
            IN  /\ decisions_log' = Append(decisions_log, HumanLine(now, w, analysis))
                /\ json_log' = Append(json_log, JsonLine(now, w, analysis))
                /\ executed' = Append(executed, [worker |-> w, analysis |-> analysis])
                /\ sent' = sent \o out.sends
                /\ monitor_log' = monitor_log \o out.alerts
                /\ exec_result' = out.ret
                /\ pc' = IF out.ret = "KeyError" THEN "crashed" ELSE "update"
       ELSE /\ pc' = "update"
            /\ UNCHANGED <<auditVars, outVars, exec_result>>
    /\ UNCHANGED <<clockVars, workers, auto_approve, idx, last_check, resp,
                   analysis, tmp, statVars, wtouch, histVars, probe, configVars, passVars, cancelled>>

\* a variant of CountsAsStuck that passes over confused
CountsStuckOnly(a) == a.status = "stuck"

\* analyze_worker: "if analysis['status'] in ['stuck', 'confused']"
CountsAsStuck(a) == a.status \in {"stuck", "confused"}

\* analyze_worker, "Update stuck count": either the count is read (the load
\* of "+= 1"), or the else branch sets it to 0 and the pass ends
UpdateCount ==
    /\ pc = "update"
    /\ IF CountsAsStuck(analysis)
       THEN /\ tmp' = workers[cur].consecutive_stuck_count
            /\ pc' = "store"
            /\ UNCHANGED <<workers, idx, resp, analysis, exec_result, streak,
                           interrupted, passVars>>
       ELSE /\ workers' = ResetStuckCount(workers, cur)
            /\ streak' = [streak EXCEPT ![cur] = 0]
            /\ interrupted' = [interrupted EXCEPT ![cur] = FALSE]
            /\ Proceed(idx)
            /\ EndPass
            /\ Returns
    /\ UNCHANGED <<clockVars, auto_approve, last_check, statVars, auditVars,
                   outVars, wtouch, probe, configVars, cancelled>>

\* a variant of Escalates that starts one classification late
EscalatesLate(count) == count > EscalationCount

\* analyze_worker: whether the count just written is logged as an escalation
Escalates(count) == count >= EscalationCount

\* analyze_worker: the store of "+= 1", and the escalation entry
StoreCount ==
    /\ pc = "store"
    /\ workers' = [workers EXCEPT ![cur].consecutive_stuck_count = tmp + 1]
    /\ monitor_log' =
          IF Escalates(tmp + 1)
          THEN Append(monitor_log, [level |-> "ERROR", kind |-> "escalation",
                                    worker |-> cur, count |-> tmp + 1])
          ELSE monitor_log
    /\ streak' = [streak EXCEPT ![cur] = @ + 1]
    /\ Proceed(idx)
    /\ EndPass
    /\ Returns
    /\ UNCHANGED <<clockVars, auto_approve, last_check, statVars, auditVars,
                   sent, wtouch, interrupted, probe, configVars, cancelled>>

\* the daemon, fed the responses of R, with at most P classifier calls and A
\* clock advances by the steps of S
DaemonNext(R, P, A, S) ==
    \/ \E d \in S : Advance(d, A)
    \/ \E id \in Workers \cup {Stranger} : OnWorkerLogUpdate(id)
    \/ \E id \in Workers \cup {Stranger} : OnEventsUpdate(id)
    \/ TouchReset
    \/ \E e \in BOOLEAN : RunStart(e)
    \/ TimerFire
    \/ CheckWorker
    \/ \E snapshot \in {"text", "", None} : Capture(snapshot, P)
    \/ \E r \in R : Classify(r)
    \/ \E ok \in BOOLEAN : Execute(ok)
    \/ UpdateCount
    \/ StoreCount

Next == DaemonNext(Responses, MaxPasses, MaxAdvances, ClockSteps)

Spec == Init /\ [][Next]_vars

\* the daemon fed stuck, confused and working results that ask for no action
\* (so that the audit log stays empty and long streaks stay explorable)
StreakResponses ==
    { DecisionNoKeys("stuck", "none", 90),
      DecisionNoKeys("confused", "none", 70),
      DecisionNoKeys("working", "none", 80) }

NextStreak ==
    DaemonNext(StreakResponses, MaxStreakPasses, MaxStreakAdvances, ClockSteps)

SpecStreak == Init /\ [][NextStreak]_vars

\* the daemon fed every shape of classifier response
NextShapes ==
    DaemonNext(AllResponses, MaxShapePasses, MaxShapeAdvances, ClockSteps)

SpecShapes == Init /\ [][NextShapes]_vars

\* the daemon over more than a day: the clock also advances by a whole day
DaySteps == {stale_threshold + 1, SecondsPerDay}

NextDays == DaemonNext(Responses, MaxDayPasses, MaxDayAdvances, DaySteps)

SpecDays == Init /\ [][NextDays]_vars

\* the values of ANTHROPIC_API_KEY (unset, empty, set) and the objects
\* config.json holds under "llm_monitor" that the daemon is constructed from
ApiKeys == {None, "", Credential}
LlmConfigs == <<EmptyDict, [enabled |-> TRUE], [enabled |-> FALSE]>>

\* the state after LLMMonitorDaemon.__init__ for any of these
InitConfig ==
    /\ InitDaemon
    /\ \E key \in ApiKeys, i \in DOMAIN LlmConfigs :
          /\ api_key = key
          /\ enabled = load_config(key, LlmConfigs[i])
    /\ probe = [state |-> "idle"]

\* what the classifier call of a daemon without credential ends in as well
ConfigResponses == Responses \cup {RespApiError}

NextConfig ==
    DaemonNext(ConfigResponses, MaxConfigPasses, MaxConfigAdvances, ClockSteps)

SpecConfig == InitConfig /\ [][NextConfig]_vars

----------------------------------------------------------------------------
\* The construction on its own: LLMMonitorDaemon.__init__ for any config.json

\* what config.json holds (or not) under "workers": the file cannot be read,
\* the key is missing, its value is null, or it is a list of objects
NoFile        == [t |-> "nofile"]
MissingList   == [t |-> "missing"]
NullList      == [t |-> "null"]
WorkerList(l) == [t |-> "list", l |-> l]

\* the objects such a list holds: with an id, or without
WorkerEntries == {[id |-> "w1"], [id |-> "w2"], [role |-> "code"]}

ProjectConfigs ==
    {NoFile, MissingList, NullList} \cup
    {WorkerList(l) : l \in UNION {[1..n -> WorkerEntries] : n \in 0..MaxWorkerEntries}}

\* _load_project_config and _initialize_workers: the exception raised, if
\* any, and the dictionary self.workers built (a later entry replaces an
\* earlier one of the same id)
WorkersFromConfig(config, t) ==
    IF config.t = "nofile" THEN [error |-> "FileNotFoundError", workers |-> <<>>]
    ELSE IF config.t = "missing" THEN [error |-> None, workers |-> <<>>]
    ELSE IF config.t = "null" THEN [error |-> "TypeError", workers |-> <<>>]
    ELSE LET l   == config.l
             ids == {l[i].id : i \in {j \in 1..Len(l) : "id" \in DOMAIN l[j]}}
             at(w) == CHOOSE i \in 1..Len(l) :
                         /\ "id" \in DOMAIN l[i] /\ l[i].id = w
                         /\ \A j \in (i + 1)..Len(l) :
                               ~("id" \in DOMAIN l[j] /\ l[j].id = w)
         IN  IF \E i \in 1..Len(l) : "id" \notin DOMAIN l[i]
             THEN [error |-> "KeyError", workers |-> <<>>]
             ELSE [error |-> None,
                   workers |-> [w \in ids |-> WorkerState(w, at(w), t)]]

\* before the construction: any credential, any "llm_monitor", any "workers"
InitStartup ==
    /\ InitCommon
    /\ workers = <<>>
    /\ pc = "new"
    /\ \E key \in ApiKeys, i \in DOMAIN LlmConfigs :
          /\ api_key = key
          /\ enabled = load_config(key, LlmConfigs[i])
    /\ probe \in {[state |-> "config", config |-> c] : c \in ProjectConfigs}

\* LLMMonitorDaemon(project_dir): an exception of __init__ is caught nowhere
\* (main calls the constructor without a try) and ends the process
Construct ==
    /\ pc = "new"
    /\ LET r == WorkersFromConfig(probe.config, now)
       IN  /\ pc' = IF r.error = None THEN "init" ELSE "crashed"
           /\ workers' = r.workers
    /\ UNCHANGED <<clockVars, auto_approve, idx, last_check, resp, analysis, tmp,
                   exec_result, statVars, auditVars, outVars, wtouch, histVars,
                   probe, configVars, passVars, cancelled>>

\* main(): the daemon is constructed, then run() starts
NextStartup ==
    \/ Construct
    \/ \E e \in BOOLEAN : RunStart(e)

SpecStartup == InitStartup /\ [][NextStartup]_vars

\* run(), "Final stats": the entry logged when the daemon stops
FinalStats(requests, cost) ==
    [level |-> "INFO", kind |-> "final_stats", worker |-> None,
     count |-> requests, cost |-> cost]

\* A KeyboardInterrupt is raised in the main thread while run() is in its
\* loop.  It reaches the except clause of run() from everywhere but the two
\* "try: ... except: pass" blocks of analyze_worker (the reads of events.jsonl
\* and of the worker's prompt, between the snapshot and the classifier call),
\* whose bare except catches it: swallowed says that it was raised there.
\* The except clause of run() stops and joins the observer (a touch under way
\* is completed), logs the final stats, and run() returns.
Interrupt(swallowed) ==
    /\ pc \in LoopPcs
    /\ swallowed => pc = "classify"
    /\ cancelled' = TRUE
    /\ IF swallowed
       THEN UNCHANGED <<workers, mainVars, monitor_log, wtouch, streak, passVars>>
       ELSE /\ pc' = "stopped"
            /\ idx' = 1
            /\ last_check' = last_check
            /\ EndPass
            /\ in_flight' = [w \in Workers |-> 0]
            /\ count0' = 0
            /\ captured' = 0
            /\ workers' = IF wtouch = None THEN workers
                          ELSE ResetStuckCount(workers, wtouch)
            /\ streak' = IF wtouch = None THEN streak
                         ELSE [streak EXCEPT ![wtouch] = 0]
            /\ wtouch' = None
            /\ monitor_log' = Append(monitor_log, FinalStats(total_requests, total_cost))
    /\ UNCHANGED <<clockVars, auto_approve, statVars, auditVars, sent,
                   interrupted, probe, configVars>>

\* the daemon with a user who may interrupt it
NextCancel ==
    \/ DaemonNext(Responses, MaxCancelPasses, MaxCancelAdvances, ClockSteps)
    \/ \E swallowed \in BOOLEAN : Interrupt(swallowed)

SpecCancel == Init /\ [][NextCancel]_vars

----------------------------------------------------------------------------
\* WorkerState.is_stale on its own: one call, for a worker last active at
\* last_activity, made at the time now

\* the idle times explored: whole days, seconds within the day, microseconds
ProbeSeconds == {0, 1, stale_threshold - 1, stale_threshold, stale_threshold + 1,
                 SecondsPerDay - 1}
ProbeMicros == {0, 1, MicrosPerSecond - 1}
ProbeThresholds == {0, 1, stale_threshold, SecondsPerDay - 1, SecondsPerDay}
ProbeStarts == {Datetime(0, 0), Datetime(10, MicrosPerSecond - 1)}

InitStale ==
    /\ InitDaemon
    /\ api_key = Credential
    /\ enabled = load_config(Credential, EmptyDict)
    /\ probe \in { [state |-> "input",
                    last_activity |-> la,
                    now |-> DatetimeAdd(la, d, sec, us),
                    threshold |-> th] :
                   la \in ProbeStarts, d \in 0..MaxDays, sec \in ProbeSeconds,
                   us \in ProbeMicros, th \in ProbeThresholds }

\* worker.is_stale(threshold) is called
StaleCall ==
    /\ probe.state = "input"
    /\ probe' = [state |-> "done",
                 last_activity |-> probe.last_activity,
                 now |-> probe.now,
                 threshold |-> probe.threshold,
                 result |-> is_stale(probe.last_activity, probe.now, probe.threshold)]
    /\ UNCHANGED <<clockVars, workers, auto_approve, mainVars, statVars,
                   auditVars, outVars, wtouch, histVars, configVars, passVars,
                   cancelled>>

NextStale == StaleCall

SpecStale == InitStale /\ [][NextStale]_vars

----------------------------------------------------------------------------
\* Properties

\* a step of analyze_worker's "Execute action if needed"
ExecuteStep == \E ok \in BOOLEAN : Execute(ok)

\* a pass holds a decision: analysis is a dictionary
HasDecision == pc \in {"execute", "update", "store", "crashed"}

Last(q) == q[Len(q)]

\* the escalation entries llm-monitor.log holds for worker w
EscalationsOf(w) ==
    Cardinality({k \in 1..Len(monitor_log) :
                    monitor_log[k].kind = "escalation" /\ monitor_log[k].worker = w})

\* C1: every classification pass that obtained a decision appends exactly one
\* record to each audit log for the worker, whatever the action (none
\* included): the step that follows the classifier's answer always makes both
\* logs one line longer, the new line naming the worker.
C1_EveryDecisionRecorded ==
    [][ExecuteStep =>
          /\ Len(decisions_log') = Len(decisions_log) + 1
          /\ Len(json_log') = Len(json_log) + 1
          /\ Last(json_log').worker = cur
          /\ Last(decisions_log').worker = cur]_vars

\* C2: COMPLETE is terminal: no snapshot is taken and no classifier call is
\* made for a worker whose status a classification result has set to complete.
C2_CompleteIsTerminal ==
    pc \in {"capture", "classify"} => workers[cur].status # "complete"

\* the classifier contract: an object with a status and an action of the
\* closed enumerations, a justification, a confidence in 0..100, and a
\* keystroke payload when the action is send_keys
Conforming(r) ==
    /\ r.call = "ok"
    /\ r.body.t = "dict"
    /\ {"status", "action", "reasoning", "confidence"} \subseteq DOMAIN r.body.d
    /\ r.body.d.status \in StatusEnum
    /\ r.body.d.action \in ActionEnum
    /\ r.body.d.confidence \in 0..100
    /\ r.body.d.action = "send_keys" => "keys" \in DOMAIN r.body.d

\* C3: whenever the classifier's answer does not conform to the contract, the
\* decision the loop uses has status error, action none and confidence 0, and
\* the pass does not end in an unhandled failure.
C3_NonConformingYieldsError ==
    (HasDecision /\ ~Conforming(resp)) =>
        /\ analysis.status = "error"
        /\ analysis.action = "none"
        /\ analysis.confidence = 0
        /\ pc # "crashed"

\* the entry StoreCount appends, if any
EscalationLogged ==
    /\ Len(monitor_log') = Len(monitor_log) + 1
    /\ Last(monitor_log').kind = "escalation"
    /\ Last(monitor_log').worker = cur

\* C4 (as amended): in a streak of stuck/confused classifications of one worker
\* that no touch and no other status interrupts, the first and the second emit
\* no escalation entry and the third and every later one emit one entry each.
C4_EscalationFromThird ==
    [][(StoreCount /\ ~interrupted[cur]) =>
          /\ streak'[cur] >= EscalationCount => EscalationLogged
          /\ streak'[cur] < EscalationCount => monitor_log' = monitor_log]_vars

\* C4 (as claimed): such a streak emits exactly one escalation entry, at its
\* third classification, and none at the fourth or later.
C4_ExactlyOneEscalation ==
    [][(StoreCount /\ ~interrupted[cur]) =>
          /\ streak'[cur] = EscalationCount => EscalationLogged
          /\ streak'[cur] # EscalationCount => monitor_log' = monitor_log]_vars

\* C4, the case: a worker whose uninterrupted streak has reached four, with
\* the two escalation entries of its third and fourth classification
C4_Witness ==
    \E w \in Workers :
        /\ streak[w] = EscalationCount + 1
        /\ ~interrupted[w]
        /\ workers[w].consecutive_stuck_count = EscalationCount + 1
        /\ EscalationsOf(w) = 2

\* C5: touch and the classification update never race, so that no touch is
\* lost: a worker's consecutive_stuck_count is always the number of
\* stuck/confused results recorded for it since its last completed touch or
\* other result, never a count that a touch had already reset.
C5_NoTouchLost ==
    \A w \in Workers : workers[w].consecutive_stuck_count = streak[w]

\* C6: with auto-approval off, executing a decision whose action is approve or
\* send_keys makes no send-keys call, appends exactly one line for it to
\* llm-decisions.log and exactly one to llm-decisions.jsonl, and reports that
\* the action was not applied.
C6_SwitchOffLogsOnly ==
    [][(ExecuteStep /\ ~auto_approve /\ analysis.action \in {"approve", "send_keys"}) =>
          /\ sent' = sent
          /\ decisions_log' = Append(decisions_log, HumanLine(now, cur, analysis))
          /\ json_log' = Append(json_log, JsonLine(now, cur, analysis))
          /\ exec_result' = "False"]_vars

\* C6, the case: such a decision has just been executed with the switch off
C6_Witness ==
    /\ pc = "update"
    /\ ~auto_approve
    /\ analysis.action \in {"approve", "send_keys"}
    /\ exec_result = "False"
    /\ Len(json_log) >= 1
    /\ sent = <<>>

\* C7: executing a decision whose action is intervene never calls send-keys; it
\* appends the audit record, logs a warning-level alert for the worker and
\* reports failure.
C7_InterveneAlertsAndFails ==
    [][(ExecuteStep /\ analysis.action = "intervene") =>
          /\ sent' = sent
          /\ Len(decisions_log') = Len(decisions_log) + 1
          /\ Len(json_log') = Len(json_log) + 1
          /\ Len(monitor_log') = Len(monitor_log) + 1
          /\ Last(monitor_log').kind = "intervene"
          /\ Last(monitor_log').level = "WARNING"
          /\ Last(monitor_log').worker = cur
          /\ exec_result' = "False"]_vars

\* line k of both logs describes the k-th executed decision
LineDescribes(k) ==
    LET e == executed[k]
    IN  /\ decisions_log[k].worker = e.worker
        /\ decisions_log[k].status = e.analysis.status
        /\ decisions_log[k].action = e.analysis.action
        /\ json_log[k].worker = e.worker
        /\ json_log[k].status = e.analysis.status
        /\ json_log[k].action = e.analysis.action

IsPrefix(p, q) == Len(p) <= Len(q) /\ SubSeq(q, 1, Len(p)) = p

TouchStart(w) == OnWorkerLogUpdate(w) \/ OnEventsUpdate(w)

\* C9 (as amended): touch sets the worker's last_activity to the clock's
\* reading, which is later than the value before when the clock has advanced
\* since and equal to it otherwise, and then sets consecutive_stuck_count to
\* 0; no step ever decreases a last_activity.
C9_TouchSetsActivity ==
    [][/\ \A w \in Workers :
             /\ workers'[w].last_activity >= workers[w].last_activity
             /\ TouchStart(w) =>
                   /\ workers'[w].last_activity = now
                   /\ (now > workers[w].last_activity
                         => workers'[w].last_activity > workers[w].last_activity)
       /\ TouchReset =>
             /\ workers'[wtouch].consecutive_stuck_count = 0
             /\ workers'[wtouch].last_activity = workers[wtouch].last_activity]_vars

\* C9 (as claimed): touch strictly increases last_activity and sets
\* consecutive_stuck_count to 0, and last_activity never decreases.
C9_TouchStrictlyIncreases ==
    [][/\ \A w \in Workers :
             /\ workers'[w].last_activity >= workers[w].last_activity
             /\ TouchStart(w) =>
                   workers'[w].last_activity > workers[w].last_activity
       /\ TouchReset => workers'[wtouch].consecutive_stuck_count = 0]_vars

\* C9, the case: a touch has moved a worker's last_activity forward and has
\* reset the count its stuck result had left
C9_Witness ==
    \E w \in Workers :
        /\ pc = "sleep"
        /\ wtouch = None
        /\ workers[w].status \in {"stuck", "confused"}
        /\ workers[w].last_activity > 0
        /\ workers[w].consecutive_stuck_count = 0

\* whether the time from last_activity to nowdt exceeds threshold seconds
ElapsedExceeds(last_activity, nowdt, threshold_seconds) ==
    LET td == DatetimeSub(nowdt, last_activity)
        whole == td.days * SecondsPerDay + td.seconds
    IN  \/ whole > threshold_seconds
        \/ whole = threshold_seconds /\ td.microseconds > 0

\* C10: is_stale(threshold) is true exactly when the time elapsed since
\* last_activity is greater than threshold, also for a day or more.
C10_StaleIffElapsedExceeds ==
    probe.state = "done" =>
        (probe.result <=> ElapsedExceeds(probe.last_activity, probe.now, probe.threshold))

\* the time since worker w was last active, in seconds
Elapsed(w) == now - workers[w].last_activity

\* C11: on every timer tick, each worker whose time since its last activity
\* exceeds the threshold and whose status is not complete gets a
\* classification pass when the tick comes to it (once per tick), whatever
\* its status otherwise, and a worker that is not stale gets none.
C11_StaleWorkersGetOnePass ==
    [][CheckWorker =>
          /\ (/\ Elapsed(cur) > stale_threshold
              /\ workers[cur].status \notin {"complete", "COMPLETE"})
                => (pc' = "capture" /\ in_flight'[cur] = 1)
          /\ Elapsed(cur) <= stale_threshold
                => (pc' # "capture" /\ in_flight' = in_flight)
          /\ idx' >= idx \/ pc' = "sleep"]_vars

\* where the main thread is while a classification pass runs
PassPcs == {"capture", "classify", "execute", "update", "store"}

\* C12: once the loop runs, no failure within a classification pass halts it:
\* whatever the snapshot, the classifier's answer, the decision's fields and
\* the result of send-keys, each step of a pass leaves the daemon running
\* (the observer subscribed, the main thread in the pass, at the next worker
\* or back in the timer loop).
C12_NoFailureHaltsLoop ==
    [][(pc \in PassPcs) =>
          /\ Watching'
          /\ pc' \in (PassPcs \cup {"check", "sleep"})]_vars

\* whether decision a carries a keystroke payload
HasPayload(a) == "keys" \in DOMAIN a /\ a.keys # ""

\* C13: with auto-approval on, executing a decision whose action is approve
\* or send_keys makes exactly one send-keys call, to the worker's window: with
\* the decision's payload when it has one, with C-m for an approve whose
\* payload is absent or empty; and execute returns what send-keys returned.
C13_SendsOnePayload ==
    [][\A ok \in BOOLEAN :
          (Execute(ok) /\ auto_approve /\ analysis.action \in {"approve", "send_keys"}) =>
              /\ Len(sent') = Len(sent) + 1
              /\ Last(sent').window = workers[cur].window_num
              /\ HasPayload(analysis) => Last(sent').keys = analysis.keys
              /\ (~HasPayload(analysis) /\ analysis.action = "approve")
                    => Last(sent').keys = "C-m"
              /\ exec_result' = (IF ok THEN "True" ELSE "False")]_vars

\* a KeyboardInterrupt is raised in the loop
InterruptStep == \E swallowed \in BOOLEAN : Interrupt(swallowed)

\* C14: a cancellation at any point of the loop, the middle of a
\* classification pass included, stops the observer and the timer and logs
\* the final statistics (requests made, cumulative cost); the daemon then
\* takes no snapshot, makes no classifier call and sends no keystroke any
\* more.
C14_CancellationStops ==
    [][/\ InterruptStep =>
             /\ pc' = "stopped"
             /\ ~Watching'
             /\ Last(monitor_log') = FinalStats(total_requests, total_cost)
       /\ cancelled =>
             /\ pc' \notin (PassPcs \ {pc})
             /\ total_requests' = total_requests
             /\ sent' = sent]_vars

\* C15: when the credential is absent, whatever config.json says, the daemon
\* takes no snapshot, makes no classifier call, sends no keystroke and does
\* not end in an unhandled failure.
C15_NoCredentialNoMonitoring ==
    api_key \in {None, ""} =>
        /\ pc \notin {"classify", "execute", "update", "store", "crashed"}
        /\ total_requests = 0
        /\ sent = <<>>

\* whether config.json's worker list is missing or malformed
BadWorkerList(config) ==
    \/ config.t \in {"nofile", "missing", "null"}
    \/ config.t = "list" /\ \E i \in 1..Len(config.l) : "id" \notin DOMAIN config.l[i]

\* C16: whenever the worker list is missing from config.json or malformed,
\* the construction fails, and the daemon never gets to run() and to the
\* running state: no subscription, no timer.
C16_BadWorkerListNeverRuns ==
    (probe.state = "config" /\ BadWorkerList(probe.config)) =>
        (pc \in {"new", "crashed"} /\ ~Watching)

\* C17: the session is looked for once, when run() starts and before the
\* observer and the timer do: found, the loop starts; not found, the daemon
\* halts, and then nothing happens any more (no subscription, no tick, no
\* snapshot, no classifier call, no keystroke); the loop, once it runs, never
\* halts for want of the session.
C17_SessionCheckedOnce ==
    /\ [](pc = "halted" =>
            /\ ~Watching
            /\ wtouch = None
            /\ workers = initialize_workers(0)
            /\ total_requests = 0
            /\ sent = <<>>
            /\ executed = <<>>)
    /\ [][/\ \A e \in BOOLEAN :
               (RunStart(e) /\ enabled) => pc' = (IF e THEN "sleep" ELSE "halted")
          /\ pc # "halted"
          /\ pc # "init" => pc' # "halted"]_vars

\* C17, the case: the session was not found and the daemon has halted
C17_Witness ==
    /\ pc = "halted"
    /\ enabled
    /\ last_check = now

\* the calls of analyze_worker that have not returned, over all workers
PassesInFlight ==
    Cardinality({w \in Workers : in_flight[w] > 0})

\* C18: no worker ever has two classification passes in flight (indeed the
\* daemon has at most one in flight, run by the main thread for the worker
\* the tick is at), and every audit record is appended, at the end of both
\* logs, by the pass in flight and for its worker: so the records of one
\* worker stand in the order in which its passes were started.
C18_OnePassAtATime ==
    /\ [](/\ \A w \in Workers : in_flight[w] \in {0, 1}
          /\ PassesInFlight <= 1
          /\ \A w \in Workers :
                in_flight[w] = 1 <=> (pc \in PassPcs \cup {"crashed"} /\ cur = w))
    /\ [][(json_log' # json_log \/ decisions_log' # decisions_log) =>
              /\ in_flight[cur] = 1
              /\ in_flight' = in_flight
              /\ json_log' = Append(json_log, JsonLine(now, cur, analysis))
              /\ decisions_log' = Append(decisions_log, HumanLine(now, cur, analysis))]_vars

\* C18, the case: two passes of the same worker, one after the other, have
\* each left their record, and a third pass, of the other worker, is in flight
C18_Witness ==
    /\ Len(json_log) = 2
    /\ json_log[1].worker = json_log[2].worker
    /\ json_log[1].timestamp < json_log[2].timestamp
    /\ pc = "capture"
    /\ cur # json_log[1].worker
    /\ in_flight[cur] = 1

\* C19: every classification pass that was started ends, with a decision or
\* a skip, and the tick goes on: a pass in flight is always at a step that
\* the main thread takes whatever the terminal and the classifier answer
\* (a timeout included), never in a state from which it cannot end.
C19_EveryPassEnds ==
    \A w \in Workers : in_flight[w] > 0 => (pc \in PassPcs /\ cur = w)

\* a step that ends a classification pass which obtained a decision
PassEndStep == (UpdateCount /\ pc' # "store") \/ StoreCount

----------------------------------------------------------------------------
\* The daemon fed a stuck result and a classifier call that times out

MaxTimeoutPasses == 2
MaxTimeoutAdvances == 2

TimeoutResponses == {DecisionNoKeys("stuck", "none", 90), RespTimeout}

NextTimeout ==
    DaemonNext(TimeoutResponses, MaxTimeoutPasses, MaxTimeoutAdvances, ClockSteps)

SpecTimeout == Init /\ [][NextTimeout]_vars

\* C21: when the classifier call times out, the decision has status error
\* and a reasoning that names the timeout, and when the pass returns the
\* worker's consecutive_stuck_count is what it was when the pass began.
C21_TimeoutKeepsCount ==
    [][(PassEndStep /\ resp = RespTimeout) =>
          /\ analysis.status = "error"
          /\ analysis.reasoning = "Analysis failed: Request timed out."
          /\ workers'[cur].consecutive_stuck_count = count0]_vars

\* analyze_worker returns at "if not terminal_output": capture_pane gave
\* None (tmux failed, timed out or raised) or the empty string
SkipStep == \E snapshot \in {"", None} : Capture(snapshot, total_requests + 1)

\* C22: when the snapshot of a stale worker is unavailable the pass is
\* skipped: the classifier is not called, no audit record is written, no
\* keystroke is sent, no worker's status, count or last_activity changes,
\* the call of analyze_worker is over, and the tick goes on with the next
\* worker of the list (or ends after the last one).
C22_NoSnapshotSkipsPass ==
    [][SkipStep =>
          /\ UNCHANGED <<total_requests, total_cost>>
          /\ UNCHANGED <<decisions_log, json_log, executed>>
          /\ UNCHANGED <<sent, monitor_log>>
          /\ UNCHANGED workers
          /\ in_flight[cur] = 1 /\ in_flight'[cur] = 0
          /\ IF idx < Len(WorkerOrder)
             THEN pc' = "check" /\ idx' = idx + 1
             ELSE pc' = "sleep"]_vars

\* C22, the case: the first worker's pass was skipped for want of a snapshot
\* (the worker is still due and nothing was classified) and the tick is at
\* the second worker
C22_Witness ==
    /\ pc = "check"
    /\ idx = 2
    /\ DueForAnalysis(workers[WorkerOrder[1]], now)
    /\ workers[WorkerOrder[1]].status = "STARTING"
    /\ in_flight[WorkerOrder[1]] = 0
    /\ total_requests = 0
    /\ json_log = <<>>
    /\ sent = <<>>

\* C23: every worker's status is STARTING or a status of the classifier
\* contract, and every audit record carries a status and an action of the
\* contract (in the contract's lower case or in capitals): no other value
\* that the classifier answered is stored in a worker or written to the log.
C23_OnlyContractValues ==
    LET Capitals == {"WORKING", "STUCK", "WAITING", "COMPLETE", "CONFUSED", "ERROR"}
        Statuses == StatusEnum \cup Capitals
    IN  /\ \A w \in Workers : workers[w].status \in {"STARTING"} \cup Statuses
        /\ \A k \in 1..Len(json_log) :
              /\ json_log[k].status \in Statuses
              /\ json_log[k].action \in ActionEnum
        /\ \A k \in 1..Len(decisions_log) :
              /\ decisions_log[k].status \in Statuses
              /\ decisions_log[k].action \in ActionEnum

\* whether response r is a decision that asks for send_keys and carries no
\* keystroke payload
AsksKeysWithoutPayload(r) ==
    /\ r.call = "ok"
    /\ r.body.t = "dict"
    /\ Get(r.body.d, "action", None) = "send_keys"
    /\ ~HasPayload(r.body.d)

\* C24: a classifier response with action send_keys and no payload becomes
\* the error decision (status error, action none), and no keystroke is sent
\* for it.
C24_SendKeysNeedsPayload ==
    [][\A ok \in BOOLEAN :
          (Execute(ok) /\ AsksKeysWithoutPayload(resp)) =>
              /\ analysis.status = "error"
              /\ analysis.action = "none"
              /\ sent' = sent]_vars

\* a step of the observer thread that changes something: update_activity
\* starts for a registered worker, or it ends
ObserverStep == wtouch' # wtouch

\* the worker a step of the observer thread is about
Touched == IF wtouch # None THEN wtouch ELSE wtouch'

\* C25: a notification (worker log modified, events.jsonl updated) starts no
\* classification pass and does nothing but touch the registered worker it
\* names: the main thread stays where it is, no classifier call is counted,
\* no audit record is written, no keystroke is sent, nothing is logged, no
\* worker's status or window changes, every other worker's state stays as
\* it is; and a notification that names an unregistered worker changes
\* nothing at all.
C25_NotificationOnlyTouches ==
    [][/\ ObserverStep =>
             /\ Touched \in Workers
             /\ UNCHANGED <<mainVars, statVars, auditVars, outVars, in_flight>>
             /\ \A w \in Workers :
                   /\ workers'[w].status = workers[w].status
                   /\ workers'[w].window_num = workers[w].window_num
                   /\ w # Touched => workers'[w] = workers[w]
             /\ workers'[Touched].last_activity \in {workers[Touched].last_activity, now}
             /\ workers'[Touched].consecutive_stuck_count
                   \in {workers[Touched].consecutive_stuck_count, 0}
       /\ \A id \in {Stranger} :
             (OnWorkerLogUpdate(id) \/ OnEventsUpdate(id)) => UNCHANGED vars]_vars

\* C25, the case: while a pass of one worker waits for its classification,
\* a notification has touched the other worker, and only that worker
C25_Witness ==
    \E w \in Workers :
        /\ pc = "classify"
        /\ cur # w
        /\ wtouch = None
        /\ workers[w].last_activity = now
        /\ now > 0
        /\ workers[cur].last_activity = 0
        /\ workers[w].status = "STARTING"
        /\ total_requests = 0

----------------------------------------------------------------------------
\* The daemon fed stuck and confused results only, for streaks that escalate

MaxEscalationPasses == 3
MaxEscalationAdvances == 4

EscalationResponses ==
    {DecisionNoKeys("stuck", "none", 90), DecisionNoKeys("confused", "none", 70)}

NextEscalation ==
    DaemonNext(EscalationResponses, MaxEscalationPasses, MaxEscalationAdvances,
               ClockSteps)

SpecEscalation == Init /\ [][NextEscalation]_vars

\* whether worker w has been escalated: its count has reached the threshold
Escalated(w) == Escalates(workers[w].consecutive_stuck_count)

\* C26: escalation is a signal only.  The step that logs an escalation
\* leaves the loop running (the tick goes on, the observer keeps watching)
\* and the worker with status stuck or confused; and whenever the tick
\* comes to an escalated worker that is stale, a classification pass is
\* started for it, as for any other stale worker.
C26_EscalationIsSignalOnly ==
    [][/\ (StoreCount /\ Escalates(tmp + 1)) =>
             /\ Watching'
             /\ pc' \in {"check", "sleep"}
             /\ workers'[cur].status \in {"stuck", "confused"}
             /\ Last(monitor_log').kind = "escalation"
       /\ (CheckWorker /\ Escalated(cur)
             /\ is_stale(Datetime(workers[cur].last_activity, 0),
                         Datetime(now, 0), stale_threshold)) =>
             /\ workers[cur].status \in {"stuck", "confused"}
             /\ pc' = "capture"
             /\ in_flight'[cur] = 1]_vars

\* C26, the case: a worker was classified stuck or confused three times in
\* a row, the escalation was logged, and on the next tick its fourth pass
\* has begun
C26_Witness ==
    /\ pc = "capture"
    /\ Escalated(cur)
    /\ EscalationsOf(cur) >= 1
    /\ workers[cur].status \in {"stuck", "confused"}
    /\ total_requests = EscalationCount
    /\ in_flight[cur] = 1

\* analyze_worker has the classifier's result and stores its status
ClassifyStep == pc = "classify" /\ pc' = "execute"

\* C27: a worker's status changes only when a classification pass for that
\* worker stores its result; the status a result leaves is never STARTING,
\* so that a worker is STARTING exactly until its first result.
C27_StartingUntilFirstResult ==
    [][/\ \A w \in Workers :
             workers'[w].status # workers[w].status => (ClassifyStep /\ cur = w)
       /\ ClassifyStep => workers'[cur].status # "STARTING"]_vars

----------------------------------------------------------------------------
\* The daemon with a clock that reaches a whole day after a worker's
\* last activity

MaxWrapPasses == 1
MaxWrapAdvances == 2

\* just past the threshold, and the rest of the day
WrapSteps == {stale_threshold + 1, SecondsPerDay - (stale_threshold + 1)}

NextWrap == DaemonNext(Responses, MaxWrapPasses, MaxWrapAdvances, WrapSteps)

SpecWrap == Init /\ [][NextWrap]_vars

\* C28: a classification pass never changes a worker's last_activity (only
\* the start of a touch does), so a worker that was classified, is not
\* complete and has not been touched since stays stale, and every following
\* tick that comes to it starts a pass for it.
C28_PassLeavesWorkerStale ==
    [][/\ \A w \in Workers :
             workers'[w].last_activity # workers[w].last_activity
                => (wtouch = None /\ wtouch' = w)
       /\ (/\ CheckWorker
           /\ workers[cur].status \notin {"STARTING", "complete", "COMPLETE"}
           /\ Elapsed(cur) > stale_threshold)
             => (pc' = "capture" /\ in_flight'[cur] = 1)]_vars

----------------------------------------------------------------------------
\* The daemon constructed from a list of workers in which an id may occur
\* more than once, and then run

MaxBindingPasses == 1
MaxBindingAdvances == 1

\* the position at which id w first occurs in list l
FirstAt(l, w) ==
    CHOOSE i \in 1..Len(l) : l[i].id = w /\ \A j \in 1..(i - 1) : l[j].id # w

\* the lists of config.json that register exactly the workers of WorkerOrder,
\* in that order (a dictionary keeps a key at the place of its first insertion)
BindingLists ==
    {l \in UNION {[1..n -> {[id |-> w] : w \in Workers}] : n \in 1..MaxWorkerEntries} :
        /\ {l[i].id : i \in 1..Len(l)} = Workers
        /\ \A a, b \in 1..Len(WorkerOrder) :
              a < b => FirstAt(l, WorkerOrder[a]) < FirstAt(l, WorkerOrder[b])}

\* before the construction, for any of these lists
InitBinding ==
    /\ InitCommon
    /\ workers = <<>>
    /\ pc = "new"
    /\ api_key = Credential
    /\ enabled = load_config(Credential, EmptyDict)
    /\ probe \in {[state |-> "config", config |-> WorkerList(l)] : l \in BindingLists}

\* a decision that makes the executor send a keystroke, and one that does not
BindingResponses ==
    {Decision("stuck", "approve", "Y", 90), DecisionNoKeys("working", "none", 80)}

NextBinding ==
    \/ Construct
    \/ DaemonNext(BindingResponses, MaxBindingPasses, MaxBindingAdvances, ClockSteps)

SpecBinding == InitBinding /\ [][NextBinding]_vars

\* the daemon has been constructed
Constructed == pc # "new"

\* the list of workers the daemon was constructed from
Configured == probe.config.l

\* what holds of windows once they are bound: the binding never changes, a
\* keystroke is sent only by the pass in flight and to the window of its
\* worker, and the snapshot of the pass in flight is of its worker's window
WindowsStayBound ==
    /\ [](Constructed =>
            /\ \A v, w \in Workers :
                  v # w => workers[v].window_num # workers[w].window_num
            /\ captured # 0 =>
                  (in_flight[cur] = 1 /\ captured = workers[cur].window_num))
    /\ [][Constructed =>
            /\ \A w \in Workers : workers'[w].window_num = workers[w].window_num
            /\ (pc = "capture" /\ pc' = "classify") => captured' = workers[cur].window_num
            /\ sent' # sent =>
                  /\ in_flight[cur] = 1
                  /\ Len(sent') = Len(sent) + 1
                  /\ SubSeq(sent', 1, Len(sent)) = sent
                  /\ Last(sent').window = workers[cur].window_num
                  /\ Last(json_log').worker = cur]_vars

C30_StatisticsFollowTraffic ==
    /\ [](/\ total_requests >= 0 /\ total_cost >= 0
          /\ pc = "init" => (total_requests = 0 /\ total_cost = 0)
          /\ total_cost <= total_requests * Cost(Usage))
    /\ [][/\ total_requests' >= total_requests
          /\ total_cost' >= total_cost
          /\ total_requests' = (IF ClassifyStep THEN total_requests + 1 ELSE total_requests)
          /\ total_cost' # total_cost => (ClassifyStep /\ resp'.call = "ok")
          /\ (ClassifyStep /\ resp'.call = "ok") =>
                total_cost' = total_cost + Cost(resp'.usage)
          /\ (ClassifyStep /\ resp'.call # "ok") =>
                (total_cost' = total_cost /\ analysis'.status = "error")]_vars

\* C30, the case: the one invocation so far returned a text that did not
\* parse; it was counted and its tokens were charged
C30_Witness ==
    /\ pc = "execute"
    /\ resp = RespNotJson
    /\ analysis.status = "error"
    /\ total_requests = 1
    /\ total_cost = Cost(Usage)
    /\ total_cost > 0

====
